---- MODULE Spec2Model ----
(***************************************************************************)
(* A model of the two command-line tools of ImpactQuantification:          *)
(*   - scholar_citations.py      (citation scraper)                        *)
(*   - github_repo_popularity.py (metrics poller)                          *)
(*                                                                         *)
(* The tools share no code and no state.  Each component is given its own  *)
(* specification over its own variables; the variables of the other        *)
(* components are held at an idle value.                                   *)
(*                                                                         *)
(* Text is modelled as a sequence of Unicode code points, so that the      *)
(* regular expressions are decided on character classes exactly as the     *)
(* source's regex does.                                                    *)
(***************************************************************************)
EXTENDS Integers, Sequences, FiniteSets, TLC

VARIABLES
    \* find_surnames round trip (scholar_citations.py)
    snInput, snPc, snFirst, snJoined, snSecond,
    \* match_surnames (scholar_citations.py)
    msList1, msList2, msPc, msResult,
    \* get_traffic (github_repo_popularity.py)
    tfServer, tfPc, tfReturn,
    \* process_input_file (github_repo_popularity.py)
    mxLines, mxTraffic, mxIdx, mxResults, mxPc, mxLog,
    \* write_output_csv (github_repo_popularity.py)
    csvExists, csvFile, csvPrev, csvCalls, csvRaised,
    \* process_row (scholar_citations.py)
    prAuthors, prResponse, prPc, prCites,
    \* main (scholar_citations.py)
    mnRows, mnStart, mnEnd, mnJ, mnI, mnResults, mnProcessed, mnFiles, mnPc

surVars == <<snInput, snPc, snFirst, snJoined, snSecond>>
matchVars == <<msList1, msList2, msPc, msResult>>
trafficVars == <<tfServer, tfPc, tfReturn>>
metricsVars == <<mxLines, mxTraffic, mxIdx, mxResults, mxPc, mxLog>>
csvVars == <<csvExists, csvFile, csvPrev, csvCalls, csvRaised>>
rowVars == <<prAuthors, prResponse, prPc, prCites>>
mainVars == <<mnRows, mnStart, mnEnd, mnJ, mnI, mnResults, mnProcessed, mnFiles, mnPc>>
vars == <<surVars, matchVars, trafficVars, metricsVars, csvVars, rowVars, mainVars>>

\* The variables of the other components, for each component.
notSur == <<matchVars, trafficVars, metricsVars, csvVars, rowVars, mainVars>>
notMatch == <<surVars, trafficVars, metricsVars, csvVars, rowVars, mainVars>>
notTraffic == <<surVars, matchVars, metricsVars, csvVars, rowVars, mainVars>>
notMetrics == <<surVars, matchVars, trafficVars, csvVars, rowVars, mainVars>>
notCsv == <<surVars, matchVars, trafficVars, metricsVars, rowVars, mainVars>>
notRow == <<surVars, matchVars, trafficVars, metricsVars, csvVars, mainVars>>
notMain == <<surVars, matchVars, trafficVars, metricsVars, csvVars, rowVars>>

(***************************************************************************)
(* Bounds of the model.                                                    *)
(***************************************************************************)
MaxLen == 5
MaxListLen == 2
MaxCount == 5
MaxLines == 3
MaxCalls == 3
MaxBlocks == 2
MaxRows == 12

\* The strings over alphabet A of length at most n.
RECURSIVE StringsUpTo(_, _)
StringsUpTo(A, n) ==
    IF n = 0 THEN {<<>>}
    ELSE LET shorter == StringsUpTo(A, n - 1)
         IN shorter \cup {Append(s, c) : s \in shorter, c \in A}

(***************************************************************************)
(* scholar_citations.py: surname_regex and find_surnames                   *)
(***************************************************************************)
\* [A-ZÀ-Þ]
IsUpper(c) == (c >= 65 /\ c <= 90) \/ (c >= 192 /\ c <= 222)

\* [a-zß-ÿć]
IsLower(c) == (c >= 97 /\ c <= 122) \/ (c >= 223 /\ c <= 255) \/ c = 263

\* The index of the last character of the run of lowercase letters that
\* starts at i (i - 1 when s[i] is no lowercase letter): the greedy "+".
RECURSIVE RunEnd(_, _)
RunEnd(s, i) ==
    IF i <= Len(s) /\ IsLower(s[i]) THEN RunEnd(s, i + 1) ELSE i - 1

\* One repetition of the group, [A-Z..][a-z..]+, can start at p.
CanRepeat(s, p) == p + 1 <= Len(s) /\ IsUpper(s[p]) /\ IsLower(s[p + 1])

\* The match of (group)+ that starts at p, given CanRepeat(s, p): the
\* repetitions are taken greedily; gs..ge is the last repetition, which is
\* what the capturing group holds when the match ends.
RECURSIVE MatchFrom(_, _)
MatchFrom(s, p) ==
    LET e == RunEnd(s, p + 1)
    IN IF CanRepeat(s, e + 1) THEN MatchFrom(s, e + 1)
       ELSE [gs |-> p, ge |-> e]

\* A plausible slip in the pattern, "[A-Z](...[a-z]+)+": the group holds
\* the lowercase run only.
CaptureLowercaseOnly(s, gs, ge) == SubSeq(s, gs + 1, ge)

\* findall on a pattern with one group yields the group's text.
Capture(s, gs, ge) == SubSeq(s, gs, ge)

\* surname_regex.findall(s), scanning from position p: non-overlapping
\* matches, left to right.
RECURSIVE FindAll(_, _)
FindAll(s, p) ==
    IF p > Len(s) THEN <<>>
    ELSE IF CanRepeat(s, p)
         THEN LET m == MatchFrom(s, p)
              IN <<Capture(s, m.gs, m.ge)>> \o FindAll(s, m.ge + 1)
         ELSE FindAll(s, p + 1)

\* A Python value handed to find_surnames: a str, a list/tuple of str, or
\* anything else (a missing CSV cell is the float nan).
PyStr(s) == [type |-> "str", val |-> s]
PyList(l) == [type |-> "list", val |-> l]
PyNaN == [type |-> "float", val |-> <<>>]

RECURSIVE FindAllEach(_)
FindAllEach(l) ==
    IF l = <<>> THEN <<>> ELSE FindAll(Head(l), 1) \o FindAllEach(Tail(l))

find_surnames(authors) ==
    IF authors.type = "str" THEN FindAll(authors.val, 1)
    ELSE IF authors.type = "list" THEN FindAllEach(authors.val)
    ELSE <<>>

\* " ".join(l)
RECURSIVE JoinSpaces(_)
JoinSpaces(l) ==
    IF l = <<>> THEN <<>>
    ELSE IF Len(l) = 1 THEN l[1]
    ELSE l[1] \o <<32>> \o JoinSpaces(Tail(l))

(***************************************************************************)
(* scholar_citations.py: match_surnames                                    *)
(***************************************************************************)
\* name in list_2
InList(name, l) == \E i \in 1..Len(l) : l[i] = name

\* A plausible slip: "return False" inside the loop, so that only the
\* first name of list_1 is looked at.
MatchFirstOnly(list_1, list_2) ==
    IF list_1 = <<>> THEN FALSE ELSE InList(Head(list_1), list_2)

RECURSIVE match_surnames(_, _)
match_surnames(list_1, list_2) ==
    IF list_1 = <<>> THEN FALSE
    ELSE IF InList(Head(list_1), list_2) THEN TRUE
    ELSE match_surnames(Tail(list_1), list_2)

(***************************************************************************)
(* What a function call gives its caller: a value, or an exception.        *)
(***************************************************************************)
Returned(x) == [raised |-> FALSE, value |-> x]
RuntimeError == [raised |-> TRUE, value |-> <<>>]
AttributeError == [raised |-> TRUE, value |-> <<>>]

(***************************************************************************)
(* scholar_citations.py: perform_query and parse_query_result              *)
(*                                                                         *)
(* What the search engine answers is an input of process_row: the request  *)
(* fails in transport, or is answered with a status and, for a 200, a      *)
(* page.  A page is the sequence of its result blocks (div.gs_ri); a       *)
(* block may hold an author summary (div.gs_a) and may hold a link whose   *)
(* href matches "scholar?cites", each with its text.                       *)
(***************************************************************************)
NoElement == [present |-> FALSE, text |-> <<>>]
Element(text) == [present |-> TRUE, text |-> text]

TransportError == [kind |-> "transport", status |-> 0, page |-> <<>>]
Answer(status, page) == [kind |-> "answer", status |-> status, page |-> page]

\* perform_query: the page of a 200, None otherwise (the bare except
\* swallows whatever requests.get raises).
perform_query(response) ==
    IF response.kind = "answer" /\ response.status = 200
    THEN [none |-> FALSE, soup |-> response.page]
    ELSE [none |-> TRUE, soup |-> <<>>]

\* authors.split("\xa0")[0]: the text before the first no-break space
RECURSIVE BeforeNbsp(_)
BeforeNbsp(s) ==
    IF s = <<>> \/ Head(s) = 160 THEN <<>>
    ELSE <<Head(s)>> \o BeforeNbsp(Tail(s))

\* The authors of one block: the exception raised on a missing div.gs_a
\* (None has no .text) is caught and gives the empty list.
BlockAuthors(sr) ==
    IF sr.gs_a.present THEN find_surnames(PyStr(BeforeNbsp(sr.gs_a.text)))
    ELSE <<>>

\* "Cited by "
CitedByLiteral == <<67, 105, 116, 101, 100, 32, 98, 121, 32>>

\* [\d]
IsDigit(c) == c >= 48 /\ c <= 57

RECURSIVE DigitsEnd(_, _)
DigitsEnd(s, i) ==
    IF i <= Len(s) /\ IsDigit(s[i]) THEN DigitsEnd(s, i + 1) ELSE i - 1

\* The positions at which "Cited by ([\d]+)" matches.
CitedByMatches(s) ==
    LET n == Len(CitedByLiteral)
    IN {p \in 1..Len(s) :
          /\ p + n <= Len(s)
          /\ SubSeq(s, p, p + n - 1) = CitedByLiteral
          /\ IsDigit(s[p + n])}

\* int(digits)
RECURSIVE ParseInt(_)
ParseInt(digits) ==
    IF digits = <<>> THEN 0
    ELSE ParseInt(SubSeq(digits, 1, Len(digits) - 1)) * 10
         + (digits[Len(digits)] - 48)

\* The citations of one block: 0 without a cite link; with one, the number
\* after "Cited by "; re.search gives None on any other link text, and
\* None.groups() raises AttributeError, outside any try statement.
BlockCitations(sr) ==
    IF ~sr.cite.present THEN Returned(0)
    ELSE LET found == CitedByMatches(sr.cite.text)
         IN IF found = {} THEN AttributeError
            ELSE LET p == CHOOSE q \in found : \A r \in found : q <= r
                     first == p + Len(CitedByLiteral)
                 IN Returned(ParseInt(SubSeq(sr.cite.text, first,
                                             DigitsEnd(sr.cite.text, first))))

\* parse_query_result: the blocks in page order; an exception in one block
\* ends the function.
RECURSIVE parse_query_result(_)
parse_query_result(soup) ==
    IF soup = <<>> THEN Returned(<<>>)
    ELSE LET citations == BlockCitations(Head(soup))
             rest == parse_query_result(Tail(soup))
         IN IF citations.raised THEN AttributeError
            ELSE IF rest.raised THEN AttributeError
            ELSE Returned(<<[authors |-> BlockAuthors(Head(soup)),
                             citations |-> citations.value]>> \o rest.value)

(***************************************************************************)
(* scholar_citations.py: process_row                                       *)
(***************************************************************************)
\* The sentinel cites starts with.
NoCitations == -1

\* A plausible slip: the "break" left out, so that the last matching
\* result wins.
RECURSIVE SelectLastMatch(_, _, _)
SelectLastMatch(results, author_surnames, cites) ==
    IF results = <<>> THEN cites
    ELSE IF match_surnames(Head(results).authors, author_surnames)
            \/ Len(author_surnames) = 0
         THEN SelectLastMatch(Tail(results), author_surnames,
                              Head(results).citations)
         ELSE SelectLastMatch(Tail(results), author_surnames, cites)

\* for result in results: take the citations of the first result whose
\* authors match, or of the first result when the row gave no surnames.
RECURSIVE SelectCites(_, _, _)
SelectCites(results, author_surnames, cites) ==
    IF results = <<>> THEN cites
    ELSE IF match_surnames(Head(results).authors, author_surnames)
            \/ Len(author_surnames) = 0
         THEN Head(results).citations
         ELSE SelectCites(Tail(results), author_surnames, cites)

\* process_row: the value of the "Citations <date>" field of the record it
\* returns, or the exception that leaves it.
process_row(paper_authors, response) ==
    LET author_surnames ==
            IF paper_authors.type # "str" THEN <<>>
            ELSE find_surnames(paper_authors)
        query_result == perform_query(response)
    IN IF query_result.none THEN Returned(NoCitations)
       ELSE LET results == parse_query_result(query_result.soup)
            IN IF results.raised THEN AttributeError
               ELSE Returned(SelectCites(results.value, author_surnames,
                                         NoCitations))

(***************************************************************************)
(* scholar_citations.py: main                                              *)
(***************************************************************************)
\* The step of the outer range() and the factor and width of the inner one.
ChunkSize == 10

\* --start_row / --end_row: absent, or the text of an integer (any
\* non-empty text is true in Python, "0" included).
NoArg == [given |-> FALSE, val |-> 0]
Arg(k) == [given |-> TRUE, val |-> k]

\* start_row = int(args.start_row) if args.start_row else 0
StartRow(arg) == IF arg.given THEN arg.val ELSE 0

\* end_row = int(args.end_row) if args.end_row else len(input_df)-1
EndRow(arg, len_df) == IF arg.given THEN arg.val ELSE len_df - 1

\* The first row of the inner loop for chunk j: range(j*10, (j+1)*10).
InnerFirst(j) == j * ChunkSize
InnerStop(j) == (j + 1) * ChunkSize

\* input_df.loc[i] on the default integer index: KeyError outside it.
InTable(i, len_df) == i >= 0 /\ i < len_df

(***************************************************************************)
(* github_repo_popularity.py: Python values and insertion-ordered dicts    *)
(***************************************************************************)
\* A cell of the result table is a Python int or a Python str.
PyInt(n) == [t |-> "int", v |-> n]
PyText(s) == [t |-> "str", v |-> s]

\* str(value)
PyToStr(x) == IF x.t = "int" THEN ToString(x.v) ELSE x.v

\* A dict is the sequence of its items in insertion order; a value of the
\* result table is a list of cells.
Item(k, v) == [k |-> k, v |-> v]

DictKeys(d) == [i \in 1..Len(d) |-> d[i].k]

DictHas(d, k) == \E i \in 1..Len(d) : d[i].k = k

DictGet(d, k) == d[CHOOSE i \in 1..Len(d) : d[i].k = k].v

\* d[k] = v: an existing key keeps its place.
DictSet(d, k, v) ==
    IF DictHas(d, k)
    THEN [i \in 1..Len(d) |-> IF d[i].k = k THEN Item(k, v) ELSE d[i]]
    ELSE Append(d, Item(k, v))

\* d.update(e)
RECURSIVE DictUpdate(_, _)
DictUpdate(d, e) ==
    IF e = <<>> THEN d
    ELSE DictUpdate(DictSet(d, Head(e).k, Head(e).v), Tail(e))

(***************************************************************************)
(* github_repo_popularity.py: GITHUB_REGEX                                 *)
(*                                                                         *)
(* A line of the input file, stripped, is modelled by its "/"-separated    *)
(* parts (what line.strip().split("/") returns); the parts are taken from  *)
(* a small vocabulary whose character classes are listed here.             *)
(***************************************************************************)
\* parts that end with "http:" or "https:" (the pattern is not anchored at
\* the start of the line)
HttpSchemeParts == {"https:", "http:"}

\* parts that match "github.com" with "." standing for any one character
GithubHostParts == {"github.com", "githubXcom"}

\* parts that match [-\w]+
OwnerParts == {"octocat", "alan-turing", "Hello-World"}

\* parts that match [-\w\.]+
RepoParts == OwnerParts \cup {"repo.js"}

\* A plausible slip: the "$" left out of the pattern, so that anything may
\* follow a matched prefix.
GithubRegexUnanchored(parts) ==
    \E n \in 5..Len(parts) :
        /\ parts[n - 4] \in HttpSchemeParts
        /\ parts[n - 3] = ""
        /\ parts[n - 2] \in GithubHostParts
        /\ parts[n - 1] \in OwnerParts
        /\ parts[n] \in RepoParts

\* GITHUB_REGEX.search(line.strip()): "http(s)?://github.com/OWNER/REPO"
\* must end the line.
GithubRegexSearch(parts) ==
    LET n == Len(parts)
    IN /\ n >= 5
       /\ parts[n - 4] \in HttpSchemeParts
       /\ parts[n - 3] = ""
       /\ parts[n - 2] \in GithubHostParts
       /\ parts[n - 1] \in OwnerParts
       /\ parts[n] \in RepoParts

\* owner, repo = line.strip().split("/")[-2:]
OwnerOf(parts) == parts[Len(parts) - 1]
RepoOf(parts) == parts[Len(parts)]

(***************************************************************************)
(* github_repo_popularity.py: the GitHub API as the tool sees it           *)
(*                                                                         *)
(* A response is its status code and, for a 200, the numbers of its JSON   *)
(* body.  What the server answers is not the program's choice: the         *)
(* answers to one item's requests are an input of the step, srv.           *)
(***************************************************************************)
HTTP_OK == 200

MetaOk(stars, forks, watchers) ==
    [status |-> HTTP_OK, stars |-> stars, forks |-> forks, watchers |-> watchers]

CountOk(count) == [status |-> HTTP_OK, count |-> count]

Refused(status) == [status |-> status]

\* return_dict as get_traffic first builds it; its keys, in insertion
\* order, are the resources the loop asks for.
TrafficReturnDict == <<Item("views", <<PyText("n/a")>>),
                       Item("clones", <<PyText("n/a")>>)>>

\* The loop of get_traffic over the resources still to ask for: the first
\* response that is not a 200 returns return_dict as it stands.
RECURSIVE TrafficLoop(_, _, _)
TrafficLoop(return_dict, resources, srv) ==
    IF resources = <<>> THEN return_dict
    ELSE LET r == srv[Head(resources)]
         IN IF r.status # HTTP_OK THEN return_dict
            ELSE TrafficLoop(DictSet(return_dict, Head(resources),
                                     <<PyInt(r.count)>>),
                             Tail(resources), srv)

\* A plausible slip: return_dict starts empty, so that it holds only what
\* was fetched.
GetTrafficFetchedOnly(srv) ==
    TrafficLoop(<<>>, DictKeys(TrafficReturnDict), srv)

get_traffic(srv) ==
    TrafficLoop(TrafficReturnDict, DictKeys(TrafficReturnDict), srv)

get_stars_watchers_forks(srv) ==
    IF srv.meta.status # HTTP_OK THEN RuntimeError
    ELSE Returned(<<Item("stars", <<PyInt(srv.meta.stars)>>),
                    Item("forks", <<PyInt(srv.meta.forks)>>),
                    Item("watchers", <<PyInt(srv.meta.watchers)>>)>>)

\* A plausible slip: the metadata failure is swallowed inside fill_row and
\* the row built so far is returned.
FillRowPartial(owner, repo, traffic, srv) ==
    LET results == <<Item("repo", <<PyText(owner \o "/" \o repo)>>)>>
        meta == get_stars_watchers_forks(srv)
    IN IF meta.raised THEN Returned(results)
       ELSE LET withMeta == DictUpdate(results, meta.value)
            IN Returned(IF traffic
                        THEN DictUpdate(withMeta, get_traffic(srv))
                        ELSE withMeta)

fill_row(owner, repo, traffic, srv) ==
    LET results == <<Item("repo", <<PyText(owner \o "/" \o repo)>>)>>
        meta == get_stars_watchers_forks(srv)
    IN IF meta.raised THEN RuntimeError
       ELSE LET withMeta == DictUpdate(results, meta.value)
            IN Returned(IF traffic
                        THEN DictUpdate(withMeta, get_traffic(srv))
                        ELSE withMeta)

\* for k, v in this_row.items(): results.setdefault(k, []) ; results[k] += v
RECURSIVE Accumulate(_, _)
Accumulate(results, this_row) ==
    IF this_row = <<>> THEN results
    ELSE LET k == Head(this_row).k
             old == IF DictHas(results, k) THEN DictGet(results, k) ELSE <<>>
         IN Accumulate(DictSet(results, k, old \o Head(this_row).v),
                       Tail(this_row))

(***************************************************************************)
(* github_repo_popularity.py: write_output_csv                             *)
(*                                                                         *)
(* The output file is the sequence of the lines written to it, each with   *)
(* its newline.                                                            *)
(***************************************************************************)
\* header_line: "date," and every header followed by a comma, the last
\* comma replaced by a newline.
RECURSIVE HeaderCells(_)
HeaderCells(headers) ==
    IF headers = <<>> THEN ""
    ELSE Head(headers) \o "," \o HeaderCells(Tail(headers))

HeaderLine(headers) ==
    LET header_line == "date," \o HeaderCells(headers)
    IN SubSeq(header_line, 1, Len(header_line) - 1) \o "\n"

\* row: the date and str() of every column's cell irow, comma-separated.
RECURSIVE RowCells(_, _, _)
RowCells(results, headers, irow) ==
    IF headers = <<>> THEN ""
    ELSE PyToStr(DictGet(results, Head(headers))[irow]) \o ","
         \o RowCells(results, Tail(headers), irow)

RowLine(today_date, results, irow) ==
    LET row == today_date \o "," \o RowCells(results, DictKeys(results), irow)
    IN SubSeq(row, 1, Len(row) - 1) \o "\n"

\* A plausible slip: the header is written on every call.
WriteHeadersAlways(exists) == TRUE

\* write_headers, from os.path.exists(filename)
WriteHeaders(exists) == ~exists

\* mode "w" or "a"
OpenMode(exists) == IF exists THEN "a" ELSE "w"

\* results[headers[0]] with no header raises IndexError, after the file has
\* been opened and the header line (if any) written.
CsvRaises(results) == results = <<>>

\* The lines one call writes.
CsvWritten(exists, results, today_date) ==
    LET headers == DictKeys(results)
        head == IF WriteHeaders(exists) THEN <<HeaderLine(headers)>> ELSE <<>>
    IN IF CsvRaises(results) THEN head
       ELSE head \o [irow \in 1..Len(DictGet(results, headers[1])) |->
                        RowLine(today_date, results, irow)]

\* The file after write_output_csv(filename, results).
write_output_csv(exists, content, results, today_date) ==
    IF OpenMode(exists) = "w" THEN CsvWritten(exists, results, today_date)
    ELSE content \o CsvWritten(exists, results, today_date)

(***************************************************************************)
(* Idle values: a component's variables while another one is checked.      *)
(***************************************************************************)
SurIdle ==
    /\ snInput = <<>> /\ snPc = "idle" /\ snFirst = <<>>
    /\ snJoined = <<>> /\ snSecond = <<>>

MatchIdle ==
    /\ msList1 = <<>> /\ msList2 = <<>> /\ msPc = "idle" /\ msResult = FALSE

TrafficIdle == tfServer = <<>> /\ tfPc = "idle" /\ tfReturn = <<>>

MetricsIdle ==
    /\ mxLines = <<>> /\ mxTraffic = FALSE /\ mxIdx = 0
    /\ mxResults = <<>> /\ mxPc = "idle" /\ mxLog = <<>>

CsvIdle ==
    /\ csvExists = FALSE /\ csvFile = <<>> /\ csvPrev = <<>>
    /\ csvCalls = 0 /\ csvRaised = FALSE

RowIdle ==
    /\ prAuthors = <<>> /\ prResponse = <<>> /\ prPc = "idle" /\ prCites = 0

MainIdle ==
    /\ mnRows = 0 /\ mnStart = 0 /\ mnEnd = 0 /\ mnJ = 0 /\ mnI = 0
    /\ mnResults = <<>> /\ mnProcessed = <<>> /\ mnFiles = <<>> /\ mnPc = "idle"

SurOnly == MatchIdle /\ TrafficIdle /\ MetricsIdle /\ CsvIdle /\ RowIdle /\ MainIdle
MatchOnly == SurIdle /\ TrafficIdle /\ MetricsIdle /\ CsvIdle /\ RowIdle /\ MainIdle
TrafficOnly == SurIdle /\ MatchIdle /\ MetricsIdle /\ CsvIdle /\ RowIdle /\ MainIdle
MetricsOnly == SurIdle /\ MatchIdle /\ TrafficIdle /\ CsvIdle /\ RowIdle /\ MainIdle
CsvOnly == SurIdle /\ MatchIdle /\ TrafficIdle /\ MetricsIdle /\ RowIdle /\ MainIdle
RowOnly == SurIdle /\ MatchIdle /\ TrafficIdle /\ MetricsIdle /\ CsvIdle /\ MainIdle
MainOnly == SurIdle /\ MatchIdle /\ TrafficIdle /\ MetricsIdle /\ CsvIdle /\ RowIdle

(***************************************************************************)
(* Specification SpecSurnames: find_surnames applied to an author string,  *)
(* the result joined with spaces, and find_surnames applied again.         *)
(***************************************************************************)
\* space, 'A', 'Z', 'a', 'E' acute, 'c' acute
Alphabet == {32, 65, 90, 97, 201, 263}

SurInit ==
    /\ snInput \in StringsUpTo(Alphabet, MaxLen)
    /\ snPc = "extract"
    /\ snFirst = <<>> /\ snJoined = <<>> /\ snSecond = <<>>
    /\ SurOnly

Extract ==
    /\ snPc = "extract"
    /\ snFirst' = find_surnames(PyStr(snInput))
    /\ snPc' = "join"
    /\ UNCHANGED <<snInput, snJoined, snSecond, notSur>>

Rejoin ==
    /\ snPc = "join"
    /\ snJoined' = JoinSpaces(snFirst)
    /\ snPc' = "reextract"
    /\ UNCHANGED <<snInput, snFirst, snSecond, notSur>>

Reextract ==
    /\ snPc = "reextract"
    /\ snSecond' = find_surnames(PyStr(snJoined))
    /\ snPc' = "done"
    /\ UNCHANGED <<snInput, snFirst, snJoined, notSur>>

SurNext == Extract \/ Rejoin \/ Reextract

SpecSurnames == SurInit /\ [][SurNext]_vars

\* C9: find_surnames is idempotent on its own output: applied to the
\* space-joined list it extracted from any author string, it returns the
\* same list, element for element and in the same order.
C9_Idempotent == snPc = "done" => snSecond = snFirst

\* C9's case: an author string that holds two surnames and is not itself
\* the space-joined list (so the second extraction reads another text than
\* the first), taken through the whole round trip.
C9_Witness ==
    /\ snPc = "done"
    /\ Len(snFirst) = 2
    /\ snJoined # snInput
    /\ snSecond = snFirst

(***************************************************************************)
(* Specification SpecMatch: match_surnames on two surname lists.           *)
(***************************************************************************)
\* "Ab", "ab", "Cd"
Names == {<<65, 98>>, <<97, 98>>, <<67, 100>>}

MatchInit ==
    /\ msList1 \in StringsUpTo(Names, MaxListLen)
    /\ msList2 \in StringsUpTo(Names, MaxListLen)
    /\ msPc = "call"
    /\ msResult = FALSE
    /\ MatchOnly

Match ==
    /\ msPc = "call"
    /\ msResult' = match_surnames(msList1, msList2)
    /\ msPc' = "done"
    /\ UNCHANGED <<msList1, msList2, notMatch>>

MatchNext == Match

SpecMatch == MatchInit /\ [][MatchNext]_vars

Intersect(l1, l2) == \E i \in 1..Len(l1) : \E j \in 1..Len(l2) : l1[i] = l2[j]

\* C6 as stated: match_surnames is true iff the lists intersect (exact,
\* case-sensitive equality), and ANY list matched against itself gives true.
C6_Original ==
    msPc = "done" =>
        /\ msResult = Intersect(msList1, msList2)
        /\ (msList1 = msList2 => msResult = TRUE)

\* C6 amended: match_surnames is true iff the lists intersect (exact,
\* case-sensitive equality); lists with no common element give false, and
\* any NON-EMPTY list matched against itself gives true (the empty list
\* matched against itself gives false).
C6_Amended ==
    msPc = "done" =>
        /\ msResult = Intersect(msList1, msList2)
        /\ (msList1 = msList2 /\ msList1 # <<>> => msResult = TRUE)
        /\ (msList1 = <<>> /\ msList2 = <<>> => msResult = FALSE)

\* C6's case: the match is found at the second name of list_1, and names
\* that differ only in case are both present without being confused.
C6_Witness ==
    /\ msPc = "done"
    /\ msResult = TRUE
    /\ msList1 = << <<97, 98>>, <<65, 98>> >>
    /\ msList2 = << <<65, 98>> >>

(***************************************************************************)
(* Specification SpecTraffic: one call of get_traffic against a server     *)
(* whose answers for the two traffic resources are any of Responses.       *)
(***************************************************************************)
CountResponses ==
    {CountOk(c) : c \in 0..MaxCount} \cup {Refused(403), Refused(404)}

TrafficInit ==
    /\ tfServer \in [{"views", "clones"} -> CountResponses]
    /\ tfPc = "call"
    /\ tfReturn = <<>>
    /\ TrafficOnly

CallGetTraffic ==
    /\ tfPc = "call"
    /\ tfReturn' = get_traffic(tfServer)
    /\ tfPc' = "returned"
    /\ UNCHANGED <<tfServer, notTraffic>>

TrafficNext == CallGetTraffic

SpecTraffic == TrafficInit /\ [][TrafficNext]_vars

\* What the claim has get_traffic report for a resource: the count of that
\* resource's own 200 response, "n/a" when that resource's request is
\* answered with another status.
OwnValue(resp) ==
    IF resp.status = HTTP_OK THEN <<PyInt(resp.count)>> ELSE <<PyText("n/a")>>

\* C8: get_traffic returns a mapping with exactly the keys 'views' and
\* 'clones', each holding one value: the resource's own count or "n/a",
\* whatever the answer to the other resource's request is.
C8_PerResource ==
    tfPc = "returned" =>
        /\ DictKeys(tfReturn) = <<"views", "clones">>
        /\ \A i \in 1..Len(tfReturn) :
               tfReturn[i].v = OwnValue(tfServer[tfReturn[i].k])

(***************************************************************************)
(* Specification SpecMetrics: process_input_file on an input file of at    *)
(* most MaxLines lines, against a server that answers each request with    *)
(* a 200 or not as it pleases.                                             *)
(***************************************************************************)
GoodLines ==
    { <<"https:", "", "github.com", "octocat", "Hello-World">>,
      <<"http:", "", "github.com", "alan-turing", "repo.js">> }

\* "https://gitlab.com/octocat/Hello-World", "https://github.com/octocat"
\* and "https://github.com/octocat/Hello-World/"
BadLines ==
    { <<"https:", "", "gitlab.com", "octocat", "Hello-World">>,
      <<"https:", "", "github.com", "octocat">>,
      <<"https:", "", "github.com", "octocat", "Hello-World", "">> }

\* The answers a server may give to the requests made for one item.
ItemServers ==
    [ meta : {MetaOk(10, 5, 20), Refused(404)},
      views : {CountOk(7), Refused(403)},
      clones : {CountOk(3), Refused(403)} ]

MetricsInit ==
    /\ mxLines \in StringsUpTo(GoodLines \cup BadLines, MaxLines)
    /\ mxTraffic \in BOOLEAN
    /\ mxIdx = 0
    /\ mxResults = <<>>
    /\ mxPc = "loop"
    /\ mxLog = <<>>
    /\ MetricsOnly

\* The loop body for a line that GITHUB_REGEX does not match: the
\* RuntimeError is raised outside the try statement and leaves the function.
IterMalformed ==
    /\ mxPc = "loop"
    /\ mxIdx < Len(mxLines)
    /\ ~GithubRegexSearch(mxLines[mxIdx + 1])
    /\ mxPc' = "raised"
    /\ mxIdx' = mxIdx + 1
    /\ mxLog' = Append(mxLog, [outcome |-> "malformed", srv |-> <<>>])
    /\ UNCHANGED <<mxLines, mxTraffic, mxResults, notMetrics>>

\* The loop body for a matching line: fill_row, then either the row is
\* accumulated or the RuntimeError is caught and the loop continues.
IterFetch ==
    /\ mxPc = "loop"
    /\ mxIdx < Len(mxLines)
    /\ GithubRegexSearch(mxLines[mxIdx + 1])
    /\ \E srv \in ItemServers :
         LET line == mxLines[mxIdx + 1]
             this_row == fill_row(OwnerOf(line), RepoOf(line), mxTraffic, srv)
         IN /\ mxResults' = IF this_row.raised THEN mxResults
                            ELSE Accumulate(mxResults, this_row.value)
            /\ mxLog' = Append(mxLog,
                   [outcome |-> IF this_row.raised THEN "skipped" ELSE "row",
                    srv |-> srv])
    /\ mxIdx' = mxIdx + 1
    /\ UNCHANGED <<mxLines, mxTraffic, mxPc, notMetrics>>

\* The loop is exhausted: return results.
ReturnResults ==
    /\ mxPc = "loop"
    /\ mxIdx = Len(mxLines)
    /\ mxPc' = "returned"
    /\ UNCHANGED <<mxLines, mxTraffic, mxIdx, mxResults, mxLog, notMetrics>>

MetricsNext == IterMalformed \/ IterFetch \/ ReturnResults

SpecMetrics == MetricsInit /\ [][MetricsNext]_vars

\* The 'repo' cells the claim expects after the first n lines: one per
\* line whose metadata request was answered with a 200, in file order.
RECURSIVE ExpectedRepos(_)
ExpectedRepos(n) ==
    IF n = 0 THEN <<>>
    ELSE IF mxLog[n].srv.meta.status = HTTP_OK
         THEN Append(ExpectedRepos(n - 1),
                     PyText(mxLines[n][4] \o "/" \o mxLines[n][5]))
         ELSE ExpectedRepos(n - 1)

AllWellFormed == \A k \in 1..Len(mxLines) : mxLines[k] \in GoodLines

\* C1: on a file of well-formed lines, a metadata response that is not a
\* 200 never stops the loop: the function returns after the last line, and
\* the table holds one row per line whose metadata call returned 200, in
\* file order, and nothing (in no column, 'repo' included) for the others.
C1_FailedItemsLeaveNoRow ==
    AllWellFormed =>
        /\ mxPc # "raised"
        /\ mxPc = "returned" => Len(mxLog) = Len(mxLines)
        /\ LET expected == ExpectedRepos(Len(mxLog))
           IN IF expected = <<>> THEN mxResults = <<>>
              ELSE /\ DictHas(mxResults, "repo")
                   /\ DictGet(mxResults, "repo") = expected
                   /\ \A i \in 1..Len(mxResults) :
                          Len(mxResults[i].v) = Len(expected)

\* C1's case: three well-formed lines, the second one's metadata call
\* refused between two different repositories that are answered.
C1_Witness ==
    /\ mxPc = "returned"
    /\ Len(mxLog) = 3
    /\ AllWellFormed
    /\ mxLines[1] # mxLines[3]
    /\ mxLog[1].srv.meta.status = HTTP_OK
    /\ mxLog[2].srv.meta.status # HTTP_OK
    /\ mxLog[3].srv.meta.status = HTTP_OK
    /\ Len(DictGet(mxResults, "repo")) = 2

Fetched(k) == k <= Len(mxLog) /\ mxLog[k].outcome \in {"row", "skipped"}

\* C2 as stated: a line that does not match the URL shape is skipped and
\* the loop goes on, so that every well-formed line of the file is fetched
\* by the time the function ends.
C2_Original ==
    mxPc \in {"returned", "raised"} =>
        \A k \in 1..Len(mxLines) : mxLines[k] \in GoodLines => Fetched(k)

\* C2 amended: a line that does not match the URL shape ends the batch:
\* the RuntimeError leaves process_input_file at that line, the lines
\* before it have been fetched, no line after it is fetched, and no
\* result table is returned.
C2_MalformedLineAborts ==
    /\ \A k \in 1..Len(mxLog) :
         IF mxLines[k] \in BadLines
         THEN /\ mxLog[k].outcome = "malformed"
              /\ k = Len(mxLog)
              /\ mxPc = "raised"
         ELSE Fetched(k)
    /\ mxPc = "raised" => mxLines[Len(mxLog)] \in BadLines
    /\ mxPc = "returned" => AllWellFormed

\* C2's case: a malformed line between two well-formed ones; the first was
\* fetched and the function has raised at the second.
C2_Witness ==
    /\ mxPc = "raised"
    /\ Len(mxLines) = 3
    /\ Len(mxLog) = 2
    /\ Fetched(1)
    /\ mxLines[2] \in BadLines
    /\ mxLines[3] \in GoodLines

\* C3: the result table is rectangular after every iteration: every column
\* holds one value per accumulated row.
C3_Rectangular ==
    LET rows == Cardinality({k \in 1..Len(mxLog) : mxLog[k].outcome = "row"})
    IN \A i \in 1..Len(mxResults) : Len(mxResults[i].v) = rows

\* C3's case: with the traffic flag set, one row whose 'views' request was
\* refused, one row whose 'clones' request alone was refused, and one item
\* whose metadata call failed.
C3_Witness ==
    /\ mxTraffic
    /\ Len(mxLog) = 3
    /\ mxLog[1].outcome = "row" /\ mxLog[1].srv.views.status # HTTP_OK
    /\ mxLog[2].outcome = "skipped"
    /\ mxLog[3].outcome = "row" /\ mxLog[3].srv.views.status = HTTP_OK
    /\ mxLog[3].srv.clones.status # HTTP_OK
    /\ Len(mxResults) = 6

(***************************************************************************)
(* Specification SpecCsv: at most MaxCalls calls of write_output_csv on    *)
(* one output path that does not exist at first.  Each call is given a     *)
(* result table that main can hand it, and the date of its day.            *)
(***************************************************************************)
AnsweredAll == [meta |-> MetaOk(10, 5, 20), views |-> CountOk(7), clones |-> CountOk(3)]
ViewsRefused == [meta |-> MetaOk(0, 1, 2), views |-> Refused(403), clones |-> CountOk(3)]

RowPlain == fill_row("octocat", "Hello-World", FALSE, AnsweredAll).value
RowPlain2 == fill_row("alan-turing", "repo.js", FALSE, ViewsRefused).value
RowTraffic == fill_row("octocat", "Hello-World", TRUE, ViewsRefused).value

\* {} (no item could be fetched), one row, two rows, one row with traffic
CsvTables ==
    { <<>>,
      Accumulate(<<>>, RowPlain),
      Accumulate(Accumulate(<<>>, RowPlain), RowPlain2),
      Accumulate(<<>>, RowTraffic) }

Dates == {"2026-11-03", "2026-11-04"}

CsvInit ==
    /\ csvExists = FALSE
    /\ csvFile = <<>>
    /\ csvPrev = <<>>
    /\ csvCalls = 0
    /\ csvRaised = FALSE
    /\ CsvOnly

WriteCsv ==
    /\ csvCalls < MaxCalls
    /\ \E results \in CsvTables, today_date \in Dates :
         /\ csvFile' = write_output_csv(csvExists, csvFile, results, today_date)
         /\ csvRaised' = CsvRaises(results)
    /\ csvExists' = TRUE
    /\ csvPrev' = csvFile
    /\ csvCalls' = csvCalls + 1
    /\ UNCHANGED notCsv

CsvNext == WriteCsv

SpecCsv == CsvInit /\ [][CsvNext]_vars

\* A header line starts with the column name "date"; a data row starts
\* with the digits of a date.
IsHeader(line) == Len(line) >= 4 /\ SubSeq(line, 1, 4) = "date"

IsPrefix(a, b) == Len(a) <= Len(b) /\ SubSeq(b, 1, Len(a)) = a

\* C7: after any sequence of calls on a path that did not exist, the file
\* holds a header line exactly once, as its first line, and every call has
\* kept what the file held before it and appended after it.
C7_HeaderOnce ==
    csvExists =>
        /\ Len(csvFile) >= 1
        /\ IsHeader(csvFile[1])
        /\ \A i \in 2..Len(csvFile) : ~IsHeader(csvFile[i])
        /\ IsPrefix(csvPrev, csvFile)

\* C7's case: three calls, the later ones with other columns than the
\* first; the file has grown by data rows only.
C7_Witness ==
    /\ csvCalls = 3
    /\ Len(csvFile) = 5
    /\ Len(csvPrev) = 4
    /\ csvFile[1] = "date,repo,stars,forks,watchers\n"
    /\ csvFile[2] = "2026-11-03,octocat/Hello-World,10,5,20\n"
    /\ csvFile[5] = "2026-11-04,octocat/Hello-World,0,1,2,n/a,n/a\n"

(***************************************************************************)
(* Specification SpecRow: one call of process_row, on a row whose author   *)
(* field is any of AuthorFields, against a search engine that answers in   *)
(* any of the ways of Responses (pages of at most MaxBlocks blocks).       *)
(***************************************************************************)
\* nan (an empty CSV cell), "Ab, C", "ef" (no surname in it), "Gh I"
AuthorFields ==
    { PyNaN,
      PyStr(<<65, 98, 44, 32, 67>>),
      PyStr(<<101, 102>>),
      PyStr(<<71, 104, 32, 73>>) }

\* no div.gs_a; "Cd E, Ab F"; "Ab C<nbsp>- Gh, 2020"; "Cd E"
AuthorSummaries ==
    { NoElement,
      Element(<<67, 100, 32, 69, 44, 32, 65, 98, 32, 70>>),
      Element(<<65, 98, 32, 67, 160, 45, 32, 71, 104, 44, 32, 50, 48, 50, 48>>),
      Element(<<67, 100, 32, 69>>) }

\* no cite link; "Cited by 12"; "Cited by 3"; "Related"
CiteLinks ==
    { NoElement,
      Element(CitedByLiteral \o <<49, 50>>),
      Element(CitedByLiteral \o <<51>>),
      Element(<<82, 101, 108, 97, 116, 101, 100>>) }

Blocks == [gs_a : AuthorSummaries, cite : CiteLinks]

Responses ==
    {TransportError, Answer(429, <<>>), Answer(503, <<>>)}
    \cup {Answer(200, page) : page \in StringsUpTo(Blocks, MaxBlocks)}

RowInit ==
    /\ prAuthors \in AuthorFields
    /\ prResponse = <<>>
    /\ prPc = "call"
    /\ prCites = 0
    /\ RowOnly

\* process_row returns its output record.
ProcessRowReturns ==
    /\ prPc = "call"
    /\ \E response \in Responses :
         LET out == process_row(prAuthors, response)
         IN /\ ~out.raised
            /\ prCites' = out.value
            /\ prResponse' = response
    /\ prPc' = "returned"
    /\ UNCHANGED <<prAuthors, notRow>>

\* An exception leaves process_row: no record is returned.
ProcessRowRaises ==
    /\ prPc = "call"
    /\ \E response \in Responses :
         /\ process_row(prAuthors, response).raised
         /\ prResponse' = response
    /\ prPc' = "raised"
    /\ UNCHANGED <<prAuthors, prCites, notRow>>

RowNext == ProcessRowReturns \/ ProcessRowRaises

SpecRow == RowInit /\ [][RowNext]_vars

QueryFailed(response) == response.kind = "transport" \/ response.status # 200

\* C4: process_row always returns an output record, whatever fails: the
\* query failing in transport or with a status other than 200, or the
\* extraction of a block's author summary or 'Cited by N' count raising;
\* the failure never leaves process_row, and a failed query leaves the row
\* with the sentinel -1.
C4_AlwaysReturnsRecord ==
    prPc # "call" =>
        /\ prPc = "returned"
        /\ QueryFailed(prResponse) => prCites = NoCitations

\* The surnames of the row.
RowSurnames ==
    IF prAuthors.type = "str" THEN find_surnames(prAuthors) ELSE <<>>

\* A block's surnames and the row's share at least one element.
Overlaps(sr) ==
    \E i \in 1..Len(BlockAuthors(sr)) : \E j \in 1..Len(RowSurnames) :
        BlockAuthors(sr)[i] = RowSurnames[j]

\* The count of the first block of the page among those at the indices
\* chosen, the sentinel when none is chosen.
FirstCount(page, chosen) ==
    IF chosen = {} THEN NoCitations
    ELSE LET i == CHOOSE k \in chosen : \A m \in chosen : k <= m
         IN BlockCitations(page[i]).value

Overlapping(page) == {i \in 1..Len(page) : Overlaps(page[i])}

\* C5 as stated: the count reported is that of the first block whose
\* surnames overlap the row's, and the sentinel when no block overlaps,
\* a row without surnames included.
C5_Original ==
    prPc = "returned" =>
        prCites = IF QueryFailed(prResponse) THEN NoCitations
                  ELSE FirstCount(prResponse.page, Overlapping(prResponse.page))

\* C5 amended: when the row's author field yields at least one surname,
\* the count reported is that of the first block whose surnames overlap
\* the row's, and the sentinel when no block overlaps; when it yields no
\* surname (not a string, or no surname in it), the count reported is that
\* of the first block of the page, matched or not, and the sentinel only
\* when the query failed or the page has no block.
C5_FirstMatchOrFirstBlock ==
    prPc = "returned" =>
        prCites = IF QueryFailed(prResponse) THEN NoCitations
                  ELSE IF RowSurnames = <<>>
                       THEN FirstCount(prResponse.page, 1..Len(prResponse.page))
                       ELSE FirstCount(prResponse.page, Overlapping(prResponse.page))

\* C5's case: a row with a surname, a page whose first block does not
\* overlap it and whose second block does, through its second author.
C5_Witness ==
    /\ prPc = "returned"
    /\ RowSurnames = << <<65, 98>> >>
    /\ Len(prResponse.page) = 2
    /\ ~Overlaps(prResponse.page[1])
    /\ BlockAuthors(prResponse.page[2]) = << <<67, 100>>, <<65, 98>> >>
    /\ prCites = 12

(***************************************************************************)
(* Specification SpecMain: the loops of the citation tool's main, on an    *)
(* input table of at most MaxRows rows, with any --start_row and           *)
(* --end_row.  Whether process_row returns or raises for a row is the      *)
(* search engine's doing (see SpecRow); here it is a choice.               *)
(***************************************************************************)
RowArgs == {NoArg} \cup {Arg(k) : k \in 0..MaxRows}

MainInit ==
    /\ mnRows \in 0..MaxRows
    /\ \E a \in RowArgs : mnStart = StartRow(a)
    /\ \E a \in RowArgs : mnEnd = EndRow(a, mnRows)
    /\ mnJ = mnStart
    /\ mnI = 0
    /\ mnResults = <<>>
    /\ mnProcessed = <<>>
    /\ mnFiles = <<>>
    /\ mnPc = "outer"
    /\ MainOnly

\* for j in range(start_row, end_row, 10): the next chunk starts.
ChunkStart ==
    /\ mnPc = "outer"
    /\ mnJ < mnEnd
    /\ mnResults' = <<>>
    /\ mnI' = InnerFirst(mnJ)
    /\ mnPc' = "inner"
    /\ UNCHANGED <<mnRows, mnStart, mnEnd, mnJ, mnProcessed, mnFiles, notMain>>

\* The inner loop body on a row of the table: process_row returns.
RowProcessed ==
    /\ mnPc = "inner"
    /\ mnI < InnerStop(mnJ)
    /\ InTable(mnI, mnRows)
    /\ mnResults' = Append(mnResults, mnI)
    /\ mnProcessed' = Append(mnProcessed, mnI)
    /\ mnI' = mnI + 1
    /\ UNCHANGED <<mnRows, mnStart, mnEnd, mnJ, mnFiles, mnPc, notMain>>

\* The inner loop body on a row of the table: process_row raises, and
\* nothing in main catches it.
RowRaises ==
    /\ mnPc = "inner"
    /\ mnI < InnerStop(mnJ)
    /\ InTable(mnI, mnRows)
    /\ mnProcessed' = Append(mnProcessed, mnI)
    /\ mnPc' = "rowerror"
    /\ UNCHANGED <<mnRows, mnStart, mnEnd, mnJ, mnI, mnResults, mnFiles, notMain>>

\* The inner loop body on an index that is no row of the table:
\* input_df.loc[i] raises KeyError, and nothing in main catches it.
RowKeyError ==
    /\ mnPc = "inner"
    /\ mnI < InnerStop(mnJ)
    /\ ~InTable(mnI, mnRows)
    /\ mnPc' = "keyerror"
    /\ UNCHANGED <<mnRows, mnStart, mnEnd, mnJ, mnI, mnResults, mnProcessed, mnFiles, notMain>>

\* The inner loop is exhausted: the chunk's records are written to
\* output_csv + "_{j*10}-{(j+1)*10}.csv", and the outer loop steps.
ChunkWritten ==
    /\ mnPc = "inner"
    /\ mnI = InnerStop(mnJ)
    /\ mnFiles' = Append(mnFiles, [from |-> InnerFirst(mnJ), to |-> InnerStop(mnJ),
                                   rows |-> mnResults])
    /\ mnJ' = mnJ + ChunkSize
    /\ mnPc' = "outer"
    /\ UNCHANGED <<mnRows, mnStart, mnEnd, mnI, mnResults, mnProcessed, notMain>>

\* The outer range is exhausted: "Finished".
Finished ==
    /\ mnPc = "outer"
    /\ mnJ >= mnEnd
    /\ mnPc' = "finished"
    /\ UNCHANGED <<mnRows, mnStart, mnEnd, mnJ, mnI, mnResults, mnProcessed, mnFiles, notMain>>

MainNext ==
    ChunkStart \/ RowProcessed \/ RowRaises \/ RowKeyError \/ ChunkWritten \/ Finished

SpecMain == MainInit /\ [][MainNext]_vars

\* The rows of the table in the requested range, on its narrowest reading
\* (end_row excluded, as range() excludes it).
RequestedRows == {k \in 0..(mnRows - 1) : mnStart <= k /\ k < mnEnd}

TimesIn(seq, x) == Cardinality({i \in 1..Len(seq) : seq[i] = x})

FilesHolding(k) ==
    Cardinality({f \in 1..Len(mnFiles) : TimesIn(mnFiles[f].rows, k) > 0})

\* C10: when main ends without process_row having raised, on a requested
\* range that lies within the table, no index outside the table was
\* accessed, every row of the requested range was passed to process_row
\* exactly once, in increasing order, and each processed row was written to
\* exactly one chunk file.
C10_ChunksCoverRange ==
    mnPc \in {"finished", "keyerror"} /\ mnEnd <= mnRows - 1 =>
        /\ mnPc # "keyerror"
        /\ \A k \in RequestedRows : TimesIn(mnProcessed, k) = 1
        /\ \A i \in 1..(Len(mnProcessed) - 1) : mnProcessed[i] < mnProcessed[i + 1]
        /\ \A i \in 1..Len(mnProcessed) : FilesHolding(mnProcessed[i]) = 1

====
